---- MODULE Spec2Model ----
(***************************************************************************)
(* Model of magefiles/installation/install.go: the preview-mode            *)
(* installation of AppStudio.  InstallAppStudioPreviewMode runs            *)
(* cloneInfraDeployments, setInstallationEnvironments, the bootstrap       *)
(* script, addSPIOauthRedirectProxyUrl and createE2EQuaySecret in turn.    *)
(*                                                                         *)
(* Strings that the code inspects (environment values, the base64 quay     *)
(* token) are sequences of one-character strings; bytes are 0..255.        *)
(* Every call that leaves the process (filesystem, git, the script, the    *)
(* cluster API) is appended to `calls` with the result it returned.        *)
(***************************************************************************)
EXTENDS Integers, Sequences, FiniteSets, TLC

VARIABLES
    env,          \* the process environment: a map from set variable names to values
    config,       \* the InstallAppStudio struct built by NewAppStudioInstallController
    pc,           \* position inside InstallAppStudioPreviewMode
    result,       \* what InstallAppStudioPreviewMode returned ("none" while running)
    calls,        \* the external calls made so far, in order, with their results
    cloneDir,     \* what is at InfraDeploymentsCloneDir: [kind, files, remotes]
    nsExists,     \* whether the quay secret namespace exists in the cluster
    secret,       \* the quay secret in that namespace: NoSecret or [type, data]
    configMap,    \* data of configmap spi-oauth-service-environment-config
    deployment,   \* deployment spi-oauth-service: [replicas, annotations]
    returned,     \* what each step of the installation returned ("none": not run)
    projections   \* how many times setInstallationEnvironments has run

vars == <<env, config, pc, result, calls, cloneDir, nsExists, secret,
          configMap, deployment, returned, projections>>

----------------------------------------------------------------------------
(* Strings *)

Str_main == <<"m","a","i","n">>
Str_tmp == <<"t","m","p">>
Str_qe == <<"q","e">>
Str_origin == <<"o","r","i","g","i","n">>
Str_redhat_appstudio == <<"r","e","d","h","a","t","-","a","p","p","s","t","u","d","i","o">>
Str_redhat_appstudio_qe == Str_redhat_appstudio \o <<"-","q","e">>
Str_acme_qe == <<"a","c","m","e","-","q","e">>
Str_ghp == <<"g","h","p","_","1">>
Str_proxy == <<"h","t","t","p","s",":","/","/","p","r","o","x","y">>

DEFAULT_TMP_DIR == Str_tmp
DEFAULT_INFRA_DEPLOYMENTS_BRANCH == Str_main
DEFAULT_INFRA_DEPLOYMENTS_GH_ORG == Str_redhat_appstudio
DEFAULT_LOCAL_FORK_NAME == Str_qe
DEFAULT_LOCAL_FORK_ORGANIZATION == Str_redhat_appstudio_qe
DEFAULT_E2E_QUAY_ORG == Str_redhat_appstudio_qe

\* constants.IMAGE_TAG_EXPIRATION_ENV and constants.DefaultImageTagExpiration
IMAGE_TAG_EXPIRATION_ENV == "IMAGE_TAG_EXPIRATION"
DefaultImageTagExpiration == <<"6","h">>

----------------------------------------------------------------------------
(* encoding/base64: StdEncoding.DecodeString *)

B64Alphabet ==
    << "A","B","C","D","E","F","G","H","I","J","K","L","M","N","O","P",
       "Q","R","S","T","U","V","W","X","Y","Z","a","b","c","d","e","f",
       "g","h","i","j","k","l","m","n","o","p","q","r","s","t","u","v",
       "w","x","y","z","0","1","2","3","4","5","6","7","8","9","+","/" >>

B64Chars == { B64Alphabet[i] : i \in 1..Len(B64Alphabet) }

B64Pad == "="

\* the 6-bit value of an alphabet character
B64Val(c) == (CHOOSE i \in 1..Len(B64Alphabet) : B64Alphabet[i] = c) - 1

\* the decoder skips carriage returns and newlines wherever they stand
B64Strip(s) == SelectSeq(s, LAMBDA c : c \notin {"\n", "\r"})

\* whether DecodeString returns a nil error: after skipping newlines the input
\* is a whole number of 4-character quanta of alphabet characters, of which
\* only the last may end in one or two padding characters.
B64Valid(s) ==
    LET t == B64Strip(s)
        n == Len(t)
    IN  /\ n % 4 = 0
        /\ \A i \in 1..n :
              \/ t[i] \in B64Chars
              \/ /\ t[i] = B64Pad
                 /\ i >= n - 1
                 /\ i = n - 1 => t[n] = B64Pad

\* the bytes of one quantum q (4 characters, padding only at its end)
B64Quantum(q) ==
    LET v1 == B64Val(q[1])
        v2 == B64Val(q[2])
    IN  IF q[3] = B64Pad
        THEN << (v1 * 4 + v2 \div 16) % 256 >>
        ELSE LET v3 == B64Val(q[3])
             IN  IF q[4] = B64Pad
                 THEN << (v1 * 4 + v2 \div 16) % 256,
                         ((v2 % 16) * 16 + v3 \div 4) % 256 >>
                 ELSE LET v4 == B64Val(q[4])
                      IN  << (v1 * 4 + v2 \div 16) % 256,
                             ((v2 % 16) * 16 + v3 \div 4) % 256,
                             ((v3 % 4) * 64 + v4) % 256 >>

RECURSIVE B64Quanta(_)
B64Quanta(t) ==
    IF Len(t) = 0 THEN <<>>
    ELSE B64Quantum(SubSeq(t, 1, 4)) \o B64Quanta(SubSeq(t, 5, Len(t)))

\* the decoded bytes of a valid input
DecodeString(s) == B64Quanta(B64Strip(s))

----------------------------------------------------------------------------
(* The process environment *)

\* os.Getenv: the value, or the empty string when the variable is not set
Getenv(e, key) == IF key \in DOMAIN e THEN e[key] ELSE <<>>

\* os.Setenv
Setenv(e, key, value) ==
    [k \in DOMAIN e \cup {key} |-> IF k = key THEN value ELSE e[k]]

\* utils.GetEnv: the value when it is set and not empty, else the default
GetEnv(e, key, defaultVal) ==
    IF Getenv(e, key) # <<>> THEN Getenv(e, key) ELSE defaultVal

\* NewAppStudioInstallController: the fields read from the environment once
NewAppStudioInstallController(e) ==
    [ TmpDirectory                     |-> DEFAULT_TMP_DIR,
      InfraDeploymentsBranch           |-> GetEnv(e, "INFRA_DEPLOYMENTS_BRANCH", DEFAULT_INFRA_DEPLOYMENTS_BRANCH),
      InfraDeploymentsOrganizationName |-> GetEnv(e, "INFRA_DEPLOYMENTS_ORG", DEFAULT_INFRA_DEPLOYMENTS_GH_ORG),
      LocalForkName                    |-> DEFAULT_LOCAL_FORK_NAME,
      LocalGithubForkOrganization      |-> GetEnv(e, "MY_GITHUB_ORG", DEFAULT_LOCAL_FORK_ORGANIZATION),
      QuayToken                        |-> GetEnv(e, "QUAY_TOKEN", <<>>),
      DefaultImageQuayOrg              |-> GetEnv(e, "DEFAULT_QUAY_ORG", DEFAULT_E2E_QUAY_ORG),
      DefaultImageQuayOrgOAuth2Token   |-> GetEnv(e, "DEFAULT_QUAY_ORG_TOKEN", <<>>),
      DefaultImageTagExpiration        |-> GetEnv(e, IMAGE_TAG_EXPIRATION_ENV, DefaultImageTagExpiration) ]

----------------------------------------------------------------------------
(* Records of external calls *)

Call(op, res) == [op |-> op, res |-> res]

ClusterOps == { "Namespaces.Get", "Namespaces.Create",
                "Secrets.Get", "Secrets.Create", "Secrets.Update",
                "ConfigMaps.Patch", "Deployments.Get", "Deployments.Update" }

\* the entries of a call sequence that name one of the given operations
CallsTo(cs, ops) == SelectSeq(cs, LAMBDA c : c.op \in ops)

ClusterCalls(cs) == CallsTo(cs, ClusterOps)

\* the positions of a call sequence holding the given operation
Positions(cs, op) == { k \in 1..Len(cs) : cs[k].op = op }

----------------------------------------------------------------------------
(* cloneInfraDeployments *)

AbsentDir == [kind |-> "absent", files |-> {}, remotes |-> {}]

\* what os.Stat answers: o.stat = "error" is a failure other than not-exist
\* (the parent cannot be searched), otherwise the answer follows the path
StatResult(dir, o) ==
    IF o.stat = "error" THEN "error"
    ELSE IF dir.kind = "absent" THEN "notexist" ELSE dir.kind

\* what git.PlainClone answers: "fetchfail" is a failure after the repository
\* was initialised, which returns the repository handle together with the
\* error; "initfail" returns a nil handle.  A regular file at the target
\* cannot be initialised as a repository.
CloneResult(dir, o) ==
    IF dir.kind = "file" THEN "initfail" ELSE o.clone

\* the clone directory after git.PlainClone
AfterClone(dir, res, o) ==
    CASE res = "ok"        -> [kind |-> "dir", files |-> dir.files \cup {".git", "worktree"},
                               remotes |-> {Str_origin}]
      [] res = "fetchfail" -> IF o.cleanup THEN AbsentDir
                              ELSE [kind |-> "dir", files |-> dir.files \cup {".git"},
                                    remotes |-> {Str_origin}]
      [] OTHER             -> dir

\* lines 142-151: clone, drop the clone's error, create the fork remote on
\* whatever repository handle the clone returned (nil after "initfail")
CloneAndAddRemote(cfg, dir, cs, o) ==
    LET cres   == CloneResult(dir, o)
        cloned == AfterClone(dir, cres, o)
        cs1    == Append(cs, [op |-> "PlainClone", res |-> cres, target |-> dir.kind])
    IN  IF cres = "initfail"
        THEN [ret |-> "panic", calls |-> cs1, dir |-> cloned]
        ELSE IF o.remote = "ok"
        THEN [ret |-> "nil",
              calls |-> Append(cs1, Call("CreateRemote", "ok")),
              dir |-> [cloned EXCEPT !.remotes = @ \cup {cfg.LocalForkName}]]
        ELSE [ret |-> "errCreateRemote",
              calls |-> Append(cs1, Call("CreateRemote", "error")),
              dir |-> cloned]

\* cloneInfraDeployments with the result of os.RemoveAll left unchecked
cloneInfraDeploymentsBody_RemoveUnchecked(cfg, dir, o) ==
    LET st  == StatResult(dir, o)
        cs0 == << Call("Stat", st) >>
    IN  IF st = "error"
        THEN [ret |-> "panic", calls |-> cs0, dir |-> dir]
        ELSE IF st = "dir"
        THEN IF o.remove = "ok"
             THEN CloneAndAddRemote(cfg, AbsentDir, Append(cs0, Call("RemoveAll", "ok")), o)
             ELSE CloneAndAddRemote(cfg, [dir EXCEPT !.files = o.left],
                                    Append(cs0, Call("RemoveAll", "error")), o)
        ELSE CloneAndAddRemote(cfg, dir, cs0, o)

\* lines 130-152
cloneInfraDeploymentsBody(cfg, dir, o) ==
    LET st  == StatResult(dir, o)
        cs0 == << Call("Stat", st) >>
    IN  IF st = "error"
        THEN \* dirInfo is nil and err is not a not-exist error: dirInfo.IsDir() panics
             [ret |-> "panic", calls |-> cs0, dir |-> dir]
        ELSE IF st = "dir"
        THEN IF o.remove = "ok"
             THEN CloneAndAddRemote(cfg, AbsentDir, Append(cs0, Call("RemoveAll", "ok")), o)
             ELSE [ret |-> "errRemove",
                   calls |-> Append(cs0, Call("RemoveAll", "error")),
                   dir |-> [dir EXCEPT !.files = o.left]]
        ELSE CloneAndAddRemote(cfg, dir, cs0, o)

CloneOutcomes(dir) ==
    [ stat    : {"ok", "error"},
      remove  : {"ok", "error"},
      left    : SUBSET dir.files,
      clone   : {"ok", "fetchfail", "initfail"},
      cleanup : BOOLEAN,
      remote  : {"ok", "error"} ]

----------------------------------------------------------------------------
(* setInstallationEnvironments *)

\* setInstallationEnvironments with the fork remote name made unique per run
\* from TEST_BRANCH_ID, read three lines before that variable is written
Projection_ReadsBranchId(cfg, e, rnd) ==
    LET e1  == Setenv(e,  "MY_GITHUB_ORG", cfg.LocalGithubForkOrganization)
        e2  == Setenv(e1, "MY_GITHUB_TOKEN", GetEnv(e1, "GITHUB_TOKEN", <<>>))
        e3  == Setenv(e2, "MY_GIT_FORK_REMOTE", cfg.LocalForkName \o GetEnv(e2, "TEST_BRANCH_ID", <<>>))
        e4  == Setenv(e3, "TEST_BRANCH_ID", rnd)
        e5  == Setenv(e4, "QUAY_TOKEN", cfg.QuayToken)
        e6  == Setenv(e5, "IMAGE_CONTROLLER_QUAY_ORG", cfg.DefaultImageQuayOrg)
        e7  == Setenv(e6, "IMAGE_CONTROLLER_QUAY_TOKEN", cfg.DefaultImageQuayOrgOAuth2Token)
        e8  == Setenv(e7, "BUILD_SERVICE_IMAGE_TAG_EXPIRATION", cfg.DefaultImageTagExpiration)
        e9  == Setenv(e8, "PAC_GITHUB_APP_ID", GetEnv(e8, "E2E_PAC_GITHUB_APP_ID", <<>>))
        e10 == Setenv(e9, "PAC_GITHUB_APP_PRIVATE_KEY", GetEnv(e9, "E2E_PAC_GITHUB_APP_PRIVATE_KEY", <<>>))
    IN  e10

\* lines 118-127: the ten os.Setenv calls, in order; rnd is the value of
\* util.GenerateRandomString(4)
Projection(cfg, e, rnd) ==
    LET e1  == Setenv(e,  "MY_GITHUB_ORG", cfg.LocalGithubForkOrganization)
        e2  == Setenv(e1, "MY_GITHUB_TOKEN", GetEnv(e1, "GITHUB_TOKEN", <<>>))
        e3  == Setenv(e2, "MY_GIT_FORK_REMOTE", cfg.LocalForkName)
        e4  == Setenv(e3, "TEST_BRANCH_ID", rnd)
        e5  == Setenv(e4, "QUAY_TOKEN", cfg.QuayToken)
        e6  == Setenv(e5, "IMAGE_CONTROLLER_QUAY_ORG", cfg.DefaultImageQuayOrg)
        e7  == Setenv(e6, "IMAGE_CONTROLLER_QUAY_TOKEN", cfg.DefaultImageQuayOrgOAuth2Token)
        e8  == Setenv(e7, "BUILD_SERVICE_IMAGE_TAG_EXPIRATION", cfg.DefaultImageTagExpiration)
        e9  == Setenv(e8, "PAC_GITHUB_APP_ID", GetEnv(e8, "E2E_PAC_GITHUB_APP_ID", <<>>))
        e10 == Setenv(e9, "PAC_GITHUB_APP_PRIVATE_KEY", GetEnv(e9, "E2E_PAC_GITHUB_APP_PRIVATE_KEY", <<>>))
    IN  e10

ProducedVars == { "MY_GITHUB_ORG", "MY_GITHUB_TOKEN", "MY_GIT_FORK_REMOTE",
                  "TEST_BRANCH_ID", "QUAY_TOKEN", "IMAGE_CONTROLLER_QUAY_ORG",
                  "IMAGE_CONTROLLER_QUAY_TOKEN", "BUILD_SERVICE_IMAGE_TAG_EXPIRATION",
                  "PAC_GITHUB_APP_ID", "PAC_GITHUB_APP_PRIVATE_KEY" }

\* util.GenerateRandomString(n): n random lower-case letters
RandomLetters == {"k", "x"}
GenerateRandomString(n) == [1..n -> RandomLetters]

----------------------------------------------------------------------------
(* addSPIOauthRedirectProxyUrl *)

RestartedAt == "kubectl.kubernetes.io/restartedAt"

\* a merge patch {"data": {key: value}} applied to a configmap's data
MergePatch(data, key, value) ==
    [k \in DOMAIN data \cup {key} |-> IF k = key THEN value ELSE data[k]]

\* lines 247-255: the copy of the fetched deployment that is sent back
RestartedCopy(dep, now) ==
    [ replicas    |-> 0,
      annotations |-> [k \in DOMAIN dep.annotations \cup {RestartedAt} |->
                          IF k = RestartedAt THEN now ELSE dep.annotations[k]] ]

\* the rest of addSPIOauthRedirectProxyUrl once the patch has succeeded, with
\* the deployment fetch's error only logged (no return after klog.Error)
FixupAfterPatch_GetUnchecked(cm1, dep, now, o) ==
    LET cs1 == << Call("ConfigMaps.Patch", "ok"), Call("Deployments.Get", o.get) >>
    IN  IF o.update = "error"
        THEN [at |-> "updateFailed",
              calls |-> Append(cs1, Call("Deployments.Update", "error")),
              cm |-> cm1, dep |-> dep]
        ELSE [at |-> "updated",
              calls |-> Append(cs1, Call("Deployments.Update", "ok")),
              cm |-> cm1, dep |-> RestartedCopy(dep, now)]

\* addSPIOauthRedirectProxyUrl with the fetch error unchecked
addSPIOauthRedirectProxyUrlBody_GetUnchecked(e, cm, dep, now, o) ==
    LET url == Getenv(e, "OAUTH_REDIRECT_PROXY_URL")
    IN  IF url = <<>>
        THEN [at |-> "unset", calls |-> <<>>, cm |-> cm, dep |-> dep]
        ELSE IF o.patch = "error"
        THEN [at |-> "patchFailed", calls |-> << Call("ConfigMaps.Patch", "error") >>,
              cm |-> cm, dep |-> dep]
        ELSE FixupAfterPatch_GetUnchecked(
                 MergePatch(cm, "OAUTH_REDIRECT_PROXY_URL", url), dep, now, o)

\* addSPIOauthRedirectProxyUrl without the early return on an unset URL
addSPIOauthRedirectProxyUrlBody_NoGuard(e, cm, dep, now, o) ==
    LET url == Getenv(e, "OAUTH_REDIRECT_PROXY_URL")
    IN  IF o.patch = "error"
        THEN [at |-> "patchFailed", calls |-> << Call("ConfigMaps.Patch", "error") >>,
              cm |-> cm, dep |-> dep]
        ELSE IF o.get = "error"
        THEN [at |-> "getFailed",
              calls |-> << Call("ConfigMaps.Patch", "ok"), Call("Deployments.Get", "error") >>,
              cm |-> MergePatch(cm, "OAUTH_REDIRECT_PROXY_URL", url), dep |-> dep]
        ELSE FixupAfterPatch_GetUnchecked(
                 MergePatch(cm, "OAUTH_REDIRECT_PROXY_URL", url), dep, now, o)

\* lines 217-263; the function returns nothing, `at` names the return reached
addSPIOauthRedirectProxyUrlBody(e, cm, dep, now, o) ==
    LET url == Getenv(e, "OAUTH_REDIRECT_PROXY_URL")
    IN  IF url = <<>>
        THEN [at |-> "unset", calls |-> <<>>, cm |-> cm, dep |-> dep]
        ELSE IF o.patch = "error"
        THEN [at |-> "patchFailed", calls |-> << Call("ConfigMaps.Patch", "error") >>,
              cm |-> cm, dep |-> dep]
        ELSE LET cm1 == MergePatch(cm, "OAUTH_REDIRECT_PROXY_URL", url)
                 cs1 == << Call("ConfigMaps.Patch", "ok") >>
             IN  IF o.get = "error"
                 THEN [at |-> "getFailed", calls |-> Append(cs1, Call("Deployments.Get", "error")),
                       cm |-> cm1, dep |-> dep]
                 ELSE LET cs2 == Append(cs1, Call("Deployments.Get", "ok"))
                      IN  IF o.update = "error"
                          THEN [at |-> "updateFailed",
                                calls |-> Append(cs2, Call("Deployments.Update", "error")),
                                cm |-> cm1, dep |-> dep]
                          ELSE [at |-> "updated",
                                calls |-> Append(cs2, Call("Deployments.Update", "ok")),
                                cm |-> cm1, dep |-> RestartedCopy(dep, now)]

FixupOutcomes == [ patch : {"ok", "error"}, get : {"ok", "error"}, update : {"ok", "error"} ]

\* time.Now().Format(time.RFC3339)
Timestamps == { "2023-05-04T10:00:00Z", "2023-05-04T10:00:01Z" }

----------------------------------------------------------------------------
(* createE2EQuaySecret *)

NoSecret == [type |-> "none", data |-> <<>>]

SecretTypeDockerConfigJson == "kubernetes.io/dockerconfigjson"

\* what a Get answers: o says whether the API call fails for a reason other
\* than not-found, otherwise the answer follows the cluster
GetResult(exists, injected) ==
    IF injected = "error" THEN "error"
    ELSE IF exists THEN "ok" ELSE "notfound"

\* lines 166-181: st is [ret, calls, ns, sec]; ret "continue" goes on to the secret
NamespaceStage(st, o) ==
    LET g   == GetResult(st.ns, o.nsGet)
        cs1 == Append(st.calls, Call("Namespaces.Get", g))
    IN  IF g = "ok"
        THEN [st EXCEPT !.calls = cs1]
        ELSE IF g = "notfound"
        THEN IF o.nsCreate = "ok"
             THEN [st EXCEPT !.calls = Append(cs1, Call("Namespaces.Create", "ok")),
                             !.ns = TRUE]
             ELSE [st EXCEPT !.calls = Append(cs1, Call("Namespaces.Create", "error")),
                             !.ret = "errCreateNamespace"]
        ELSE [st EXCEPT !.calls = cs1, !.ret = "errGetNamespace"]

\* the secret stage with the create branch falling through to the update
SecretStage_CreateThenUpdate(decodedToken, st, o) ==
    LET g   == GetResult(st.sec # NoSecret, o.secGet)
        cs1 == Append(st.calls, Call("Secrets.Get", g))
        new == [type |-> SecretTypeDockerConfigJson, data |-> decodedToken]
    IN  IF g = "ok"
        THEN [st EXCEPT !.calls = cs1, !.ret = "nil"]
        ELSE IF g = "notfound" /\ o.secCreate = "error"
        THEN [st EXCEPT !.calls = Append(cs1, Call("Secrets.Create", "error")),
                        !.ret = "errCreateSecret"]
        ELSE IF g = "error" /\ o.nilOnError
        THEN [st EXCEPT !.calls = cs1, !.ret = "panic"]
        ELSE LET cs2 == IF g = "notfound"
                        THEN Append(cs1, Call("Secrets.Create", "ok")) ELSE cs1
                 sec2 == IF g = "notfound" THEN new ELSE st.sec
             IN  [st EXCEPT !.calls = Append(cs2, Call("Secrets.Update", o.secUpdate)),
                            !.sec = sec2,
                            !.ret = IF o.secUpdate = "ok" THEN "nil" ELSE "errUpdateSecret"]

\* lines 183-213.  When the Get succeeds the outer `if err != nil` is skipped
\* and nothing more is done.  When it fails for a reason other than not-found
\* the else branch writes the payload into the object the failed Get returned
\* (nil with some clients, which panics; otherwise an empty object that is not
\* the stored secret) and sends it with Update.
SecretStage(decodedToken, st, o) ==
    LET g   == GetResult(st.sec # NoSecret, o.secGet)
        cs1 == Append(st.calls, Call("Secrets.Get", g))
    IN  IF g = "ok"
        THEN [st EXCEPT !.calls = cs1, !.ret = "nil"]
        ELSE IF g = "notfound"
        THEN IF o.secCreate = "ok"
             THEN [st EXCEPT !.calls = Append(cs1, Call("Secrets.Create", "ok")),
                             !.sec = [type |-> SecretTypeDockerConfigJson,
                                      data |-> decodedToken],
                             !.ret = "nil"]
             ELSE [st EXCEPT !.calls = Append(cs1, Call("Secrets.Create", "error")),
                             !.ret = "errCreateSecret"]
        ELSE IF o.nilOnError
        THEN [st EXCEPT !.calls = cs1, !.ret = "panic"]
        ELSE IF o.secUpdate = "ok"
        THEN [st EXCEPT !.calls = Append(cs1, Call("Secrets.Update", "ok")),
                        !.ret = "nil"]
        ELSE [st EXCEPT !.calls = Append(cs1, Call("Secrets.Update", "error")),
                        !.ret = "errUpdateSecret"]

\* createE2EQuaySecret with the token decoded only where it is first used,
\* after the namespace has been looked up
createE2EQuaySecretBody_LateDecode(e, ns, sec, o) ==
    LET quayToken == Getenv(e, "QUAY_TOKEN")
        st0       == [ret |-> "continue", calls |-> <<>>, ns |-> ns, sec |-> sec]
    IN  IF quayToken = <<>>
        THEN [st0 EXCEPT !.ret = "errNoToken"]
        ELSE LET st1 == NamespaceStage(st0, o)
             IN  IF st1.ret # "continue" THEN st1
                 ELSE IF ~B64Valid(quayToken)
                 THEN [st1 EXCEPT !.ret = "errDecode"]
                 ELSE SecretStage(DecodeString(quayToken), st1, o)

\* lines 155-214
createE2EQuaySecretBody(e, ns, sec, o) ==
    LET quayToken == Getenv(e, "QUAY_TOKEN")
        st0       == [ret |-> "continue", calls |-> <<>>, ns |-> ns, sec |-> sec]
    IN  IF quayToken = <<>>
        THEN [st0 EXCEPT !.ret = "errNoToken"]
        ELSE IF ~B64Valid(quayToken)
        THEN [st0 EXCEPT !.ret = "errDecode"]
        ELSE LET st1 == NamespaceStage(st0, o)
             IN  IF st1.ret # "continue" THEN st1
                 ELSE SecretStage(DecodeString(quayToken), st1, o)

\* the ways the API calls of one run can fail; a call that the cluster state
\* rules out (creating what exists) is given no failure to choose
SecretOutcomes(ns, sec) ==
    [ nsGet      : {"ok", "error"},
      nsCreate   : IF ns THEN {"ok"} ELSE {"ok", "error"},
      secGet     : {"ok", "error"},
      secCreate  : IF sec # NoSecret THEN {"ok"} ELSE {"ok", "error"},
      secUpdate  : {"ok", "error"},
      nilOnError : BOOLEAN ]

----------------------------------------------------------------------------
(* InstallAppStudioPreviewMode *)

\* utils.ExecuteCommandInASpecificDirectory("hack/bootstrap-cluster.sh", ...):
\* the script can only succeed when the clone directory holds a checkout
BootstrapResult(dir, o) ==
    IF dir.kind = "dir" /\ "worktree" \in dir.files THEN o ELSE "error"

\* a return with an error, or a panic unwinding through the caller
Abort(ret) == [pc |-> IF ret = "panic" THEN "panicked" ELSE "done", result |-> ret]

\* lines 103-105
InstallAfterClone(ret) ==
    IF ret = "nil" THEN [pc |-> "cloned", result |-> "none"] ELSE Abort(ret)

\* lines 108-110
InstallAfterBootstrap(ret) ==
    IF ret = "nil" THEN [pc |-> "bootstrapped", result |-> "none"] ELSE Abort(ret)

\* the fixup's failures treated like those of every other step
InstallAfterFixup_Propagate(at) ==
    IF at \in {"unset", "updated"} THEN [pc |-> "fixedup", result |-> "none"]
    ELSE Abort("errFixup")

\* line 112: the fixup returns nothing and nothing is checked
InstallAfterFixup(at) == [pc |-> "fixedup", result |-> "none"]

\* line 114
InstallAfterSecret(ret) == Abort(ret)

----------------------------------------------------------------------------
(* Initial states *)

\* QUAY_TOKEN values: the token of the specification's scenario, {"a":1};
\* one wrapped by a newline; one with one padding character; and three that
\* are not base64 (a character outside the alphabet, a length that is not a
\* multiple of four, padding inside a quantum)
TokenScenario == <<"e","y","J","h","I","j","o","x","f","Q","=","=">>
TokenWrapped  == <<"e","y","J","h","\n","I","j","o","=","\n">>
TokenNotB64   == <<"n","o","t","!","b","6","4","*">>
TokenShort    == <<"e","y","J">>
TokenBadPad   == <<"e","y","=","J">>

QuayTokens == { <<>>, TokenScenario, TokenWrapped, TokenNotB64, TokenShort, TokenBadPad }

\* the environment variables the program reads that the model lets vary
InputVars == { "QUAY_TOKEN", "OAUTH_REDIRECT_PROXY_URL", "MY_GITHUB_ORG" }

InitialEnvs ==
    { [k \in S \cup {"GITHUB_TOKEN"} |->
          CASE k = "QUAY_TOKEN"               -> q
            [] k = "OAUTH_REDIRECT_PROXY_URL" -> Str_proxy
            [] k = "MY_GITHUB_ORG"            -> Str_acme_qe
            [] OTHER                          -> Str_ghp]
      : S \in SUBSET InputVars, q \in QuayTokens }

InitialCloneDirs ==
    { AbsentDir,
      [kind |-> "dir",  files |-> {}, remotes |-> {}],
      [kind |-> "dir",  files |-> {".git", "worktree", "stale"}, remotes |-> {Str_origin, Str_qe}],
      [kind |-> "file", files |-> {}, remotes |-> {}] }

OldPayload == <<111, 108, 100>>

InitialSecrets ==
    { NoSecret, [type |-> SecretTypeDockerConfigJson, data |-> OldPayload] }

InitialDeployments ==
    { [replicas |-> 1, annotations |-> <<>>],
      [replicas |-> 1, annotations |-> [k \in {RestartedAt} |-> "2023-05-03T09:00:00Z"]] }

NotRun == [clone |-> "none", bootstrap |-> "none", fixup |-> "none", secret |-> "none"]

Init ==
    /\ env \in InitialEnvs
    /\ config = NewAppStudioInstallController(env)
    /\ pc = "start"
    /\ result = "none"
    /\ calls = <<>>
    /\ cloneDir \in InitialCloneDirs
    /\ nsExists \in BOOLEAN
    /\ secret \in InitialSecrets
    /\ secret # NoSecret => nsExists
    /\ configMap = <<>>
    /\ deployment \in InitialDeployments
    /\ returned = NotRun
    /\ projections = 0

----------------------------------------------------------------------------
(* Actions: the steps of InstallAppStudioPreviewMode *)

cloneInfraDeployments ==
    /\ pc = "start"
    /\ \E o \in CloneOutcomes(cloneDir) :
          LET r  == cloneInfraDeploymentsBody(config, cloneDir, o)
              nx == InstallAfterClone(r.ret)
          IN  /\ calls' = calls \o r.calls
              /\ cloneDir' = r.dir
              /\ returned' = [returned EXCEPT !.clone = r.ret]
              /\ pc' = nx.pc
              /\ result' = nx.result
    /\ UNCHANGED <<env, config, nsExists, secret, configMap, deployment, projections>>

setInstallationEnvironments ==
    /\ pc = "cloned"
    /\ \E rnd \in GenerateRandomString(4) :
          env' = Projection(config, env, rnd)
    /\ calls' = Append(calls, Call("Setenv", "ok"))
    /\ projections' = projections + 1
    /\ pc' = "envset"
    /\ UNCHANGED <<config, result, cloneDir, nsExists, secret, configMap,
                   deployment, returned>>

ExecuteBootstrap ==
    /\ pc = "envset"
    /\ \E o \in {"nil", "error"} :
          LET ret == IF BootstrapResult(cloneDir, o) = "error" THEN "errBootstrap" ELSE "nil"
              nx  == InstallAfterBootstrap(ret)
          IN  /\ calls' = Append(calls, Call("bootstrap-cluster.sh", ret))
              /\ returned' = [returned EXCEPT !.bootstrap = ret]
              /\ pc' = nx.pc
              /\ result' = nx.result
    /\ UNCHANGED <<env, config, cloneDir, nsExists, secret, configMap,
                   deployment, projections>>

addSPIOauthRedirectProxyUrl ==
    /\ pc = "bootstrapped"
    /\ \E o \in FixupOutcomes, now \in Timestamps :
          LET r  == addSPIOauthRedirectProxyUrlBody(env, configMap, deployment, now, o)
              nx == InstallAfterFixup(r.at)
          IN  /\ calls' = calls \o r.calls
              /\ configMap' = r.cm
              /\ deployment' = r.dep
              /\ returned' = [returned EXCEPT !.fixup = r.at]
              /\ pc' = nx.pc
              /\ result' = nx.result
    /\ UNCHANGED <<env, config, cloneDir, nsExists, secret, projections>>

createE2EQuaySecret ==
    /\ pc = "fixedup"
    /\ \E o \in SecretOutcomes(nsExists, secret) :
          LET r  == createE2EQuaySecretBody(env, nsExists, secret, o)
              nx == InstallAfterSecret(r.ret)
          IN  /\ calls' = calls \o r.calls
              /\ nsExists' = r.ns
              /\ secret' = r.sec
              /\ returned' = [returned EXCEPT !.secret = r.ret]
              /\ pc' = nx.pc
              /\ result' = nx.result
    /\ UNCHANGED <<env, config, cloneDir, configMap, deployment, projections>>

Next ==
    \/ cloneInfraDeployments
    \/ setInstallationEnvironments
    \/ ExecuteBootstrap
    \/ addSPIOauthRedirectProxyUrl
    \/ createE2EQuaySecret

Spec == Init /\ [][Next]_vars

----------------------------------------------------------------------------
(* EnvironmentProjection on its own: setInstallationEnvironments run again  *)
(* and again on the same InstallAppStudio value                             *)

MaxProjections == 2

RunProjection ==
    /\ projections < MaxProjections
    /\ \E rnd \in GenerateRandomString(4) :
          env' = Projection(config, env, rnd)
    /\ projections' = projections + 1
    /\ UNCHANGED <<config, pc, result, calls, cloneDir, nsExists, secret,
                   configMap, deployment, returned>>

NextEnv == RunProjection

SpecEnv == Init /\ [][NextEnv]_vars

----------------------------------------------------------------------------
(* Properties *)

Terminated == pc \in {"done", "panicked"}

\* the calls that the step being taken adds to the record
NewCalls == SubSeq(calls', Len(calls) + 1, Len(calls'))

Ops(cs) == { cs[k].op : k \in 1..Len(cs) }

Has(cs, op, res) == \E k \in 1..Len(cs) : cs[k].op = op /\ cs[k].res = res

QuayTokenOf(e) == Getenv(e, "QUAY_TOKEN")

BadToken(e) == QuayTokenOf(e) = <<>> \/ ~B64Valid(QuayTokenOf(e))

SecretOps == { "Namespaces.Get", "Namespaces.Create",
               "Secrets.Get", "Secrets.Create", "Secrets.Update" }

FixupOps == { "ConfigMaps.Patch", "Deployments.Get", "Deployments.Update" }

\* C1: when createE2EQuaySecret runs with a valid token and both the namespace
\* Get and the secret Get succeed, it issues a secret Update and no secret
\* Create, and afterwards the stored secret's payload is the decoded token.
C1_UpdatesExistingSecret ==
    [][ ( /\ pc = "fixedup"
          /\ ~BadToken(env)
          /\ Has(NewCalls, "Namespaces.Get", "ok")
          /\ Has(NewCalls, "Secrets.Get", "ok") )
        => ( /\ "Secrets.Update" \in Ops(NewCalls)
             /\ "Secrets.Create" \notin Ops(NewCalls)
             /\ secret'.data = DecodeString(QuayTokenOf(env)) ) ]_vars

\* C2: when QUAY_TOKEN is unset, empty or not valid base64, createE2EQuaySecret
\* returns an error, makes no cluster call and leaves the cluster as it was.
C2_BadTokenNoClusterCall ==
    [][ (pc = "fixedup" /\ BadToken(env))
        => ( /\ returned'.secret \in {"errNoToken", "errDecode"}
             /\ result' = returned'.secret
             /\ pc' = "done"
             /\ calls' = calls
             /\ nsExists' = nsExists
             /\ secret' = secret
             /\ configMap' = configMap
             /\ deployment' = deployment ) ]_vars

\* C2 witness: createE2EQuaySecret has returned the decode error for a token
\* that is set, not empty and not base64.
C2_Witness ==
    /\ returned.secret = "errDecode"
    /\ QuayTokenOf(env) # <<>>
    /\ ~B64Valid(QuayTokenOf(env))

CloneFailed ==
    \/ \E k \in 1..Len(calls) : calls[k].op = "PlainClone" /\ calls[k].res # "ok"
    \/ Has(calls, "CreateRemote", "error")

\* C3: the steps run in the order clone, environment, bootstrap, cluster
\* calls; when the clone or the remote creation fails no environment variable
\* is set, the script is not run and no cluster call is made; when the script
\* fails no cluster call is made; both failures reach the caller.
C3_FailFast ==
    /\ \A i, j \in 1..Len(calls) :
          /\ (calls[i].op = "Setenv" /\ calls[j].op \in {"Stat", "RemoveAll", "PlainClone", "CreateRemote"})
                => j < i
          /\ (calls[i].op = "bootstrap-cluster.sh" /\ calls[j].op = "Setenv") => j < i
          /\ (calls[i].op \in ClusterOps /\ calls[j].op = "bootstrap-cluster.sh") => j < i
    /\ CloneFailed =>
          /\ Ops(calls) \cap ({"Setenv", "bootstrap-cluster.sh"} \cup ClusterOps) = {}
          /\ projections = 0
          /\ Terminated
          /\ result \notin {"none", "nil"}
    /\ Has(calls, "bootstrap-cluster.sh", "errBootstrap") =>
          /\ Ops(calls) \cap ClusterOps = {}
          /\ Terminated
          /\ result = "errBootstrap"

\* C4: once the bootstrap script has succeeded, whatever the OAuth redirect
\* fixup does, the installation goes on to createE2EQuaySecret and returns
\* exactly what that function returns.
C4_FixupNeverFatal ==
    returned.bootstrap = "nil" =>
        /\ pc \in {"bootstrapped", "fixedup", "done", "panicked"}
        /\ pc = "bootstrapped" => returned.fixup = "none" /\ ENABLED addSPIOauthRedirectProxyUrl
        /\ pc = "fixedup" => returned.fixup # "none" /\ ENABLED createE2EQuaySecret
        /\ Terminated =>
              /\ returned.fixup # "none"
              /\ returned.secret # "none"
              /\ result = returned.secret

\* C4 witness: the fixup failed at the deployment fetch and the installation
\* still returned createE2EQuaySecret's success.
C4_Witness ==
    /\ returned.fixup = "getFailed"
    /\ returned.secret = "nil"
    /\ result = "nil"
    /\ pc = "done"

\* C5: with OAUTH_REDIRECT_PROXY_URL unset or empty addSPIOauthRedirectProxyUrl
\* makes no cluster call, leaves configmap and deployment unchanged and returns
\* without error.
C5_UnsetUrlNoOp ==
    [][ (pc = "bootstrapped" /\ Getenv(env, "OAUTH_REDIRECT_PROXY_URL") = <<>>)
        => ( /\ calls' = calls
             /\ configMap' = configMap
             /\ deployment' = deployment
             /\ returned'.fixup = "unset"
             /\ pc' = "fixedup"
             /\ result' = "none" ) ]_vars

\* C5 witness: the fixup returned at the unset-URL check.
C5_Witness ==
    /\ returned.fixup = "unset"
    /\ Getenv(env, "OAUTH_REDIRECT_PROXY_URL") = <<>>

\* C6: within one run of addSPIOauthRedirectProxyUrl the deployment Update is
\* issued only after the configmap patch and the deployment fetch both
\* succeeded; a failed patch is followed by no fetch and no update; a failed
\* fetch is followed by no update and the deployment keeps its replica count
\* and annotations.
C6_UpdateOnlyAfterPatchAndGet ==
    [][ pc = "bootstrapped"
        => ( /\ \A k \in Positions(NewCalls, "Deployments.Update") :
                   /\ \E i \in 1..(k - 1) : NewCalls[i] = Call("ConfigMaps.Patch", "ok")
                   /\ \E j \in 1..(k - 1) : NewCalls[j] = Call("Deployments.Get", "ok")
             /\ Has(NewCalls, "ConfigMaps.Patch", "error")
                   => Ops(NewCalls) = {"ConfigMaps.Patch"} /\ Len(NewCalls) = 1
             /\ Has(NewCalls, "Deployments.Get", "error")
                   => "Deployments.Update" \notin Ops(NewCalls)
             /\ ~Has(NewCalls, "Deployments.Update", "ok") => deployment' = deployment ) ]_vars

\* C6 witness: the patch succeeded, the fetch failed, and the function returned.
C6_Witness ==
    /\ returned.fixup = "getFailed"
    /\ Has(calls, "ConfigMaps.Patch", "ok")
    /\ Has(calls, "Deployments.Get", "error")

\* C7 as stated: a second run of setInstallationEnvironments on the same
\* configuration leaves every produced variable, TEST_BRANCH_ID included, with
\* the value the first run gave it.
C7_Idempotent ==
    [][ (projections >= 1 /\ projections' = projections + 1)
        => \A k \in ProducedVars : Getenv(env', k) = Getenv(env, k) ]_vars

\* C7 amended: a second run leaves every produced variable other than
\* TEST_BRANCH_ID with the value the first run gave it, and no other variable
\* of the environment changes; TEST_BRANCH_ID is again four random letters.
C7_IdempotentExceptBranchId ==
    [][ (projections >= 1 /\ projections' = projections + 1)
        => ( /\ DOMAIN env' = DOMAIN env
             /\ \A k \in DOMAIN env \ {"TEST_BRANCH_ID"} : env'[k] = env[k]
             /\ env'["TEST_BRANCH_ID"] \in GenerateRandomString(4) ) ]_vars

\* C7 witness: setInstallationEnvironments has run twice and the environment
\* holds all ten produced variables.
C7_Witness ==
    /\ projections >= 2
    /\ ProducedVars \subseteq DOMAIN env

\* C8 as stated: whatever exists at the clone path when cloneInfraDeployments
\* starts is removed before the clone is attempted, so every clone starts from
\* an absent path; a failed removal returns an error with no clone and no
\* remote creation.
C8_AnythingRemovedBeforeClone ==
    [][ (pc = "start" /\ cloneDir.kind # "absent")
        => ( /\ \A k \in Positions(NewCalls, "PlainClone") :
                   /\ NewCalls[k].target = "absent"
                   /\ \E j \in 1..(k - 1) : NewCalls[j] = Call("RemoveAll", "ok")
             /\ Has(NewCalls, "RemoveAll", "error")
                   => /\ returned'.clone = "errRemove"
                      /\ result' = "errRemove"
                      /\ Ops(NewCalls) \cap {"PlainClone", "CreateRemote"} = {} ) ]_vars

\* C8 amended: a directory that exists at the clone path when
\* cloneInfraDeployments starts is removed before the clone is attempted, so
\* the clone starts from an absent path and nothing of the old directory is
\* left in the new checkout; a failed removal returns an error with no clone
\* and no remote creation.
C8_DirectoryRemovedBeforeClone ==
    [][ (pc = "start" /\ cloneDir.kind = "dir")
        => ( /\ \A k \in Positions(NewCalls, "PlainClone") :
                   /\ NewCalls[k].target = "absent"
                   /\ \E j \in 1..(k - 1) : NewCalls[j] = Call("RemoveAll", "ok")
                   /\ cloneDir'.files \subseteq {".git", "worktree"}
             /\ Has(NewCalls, "RemoveAll", "error")
                   => /\ returned'.clone = "errRemove"
                      /\ result' = "errRemove"
                      /\ pc' = "done"
                      /\ Ops(NewCalls) \cap {"PlainClone", "CreateRemote"} = {} ) ]_vars

\* C8 witness: a directory was found, removed, and the clone was then made.
C8_Witness ==
    /\ Has(calls, "Stat", "dir")
    /\ Has(calls, "RemoveAll", "ok")
    /\ Has(calls, "PlainClone", "ok")
    /\ cloneDir.files = {".git", "worktree"}

\* no call of the step being taken failed (a lookup answering not-found is
\* an answer, not a failure) and the step did not panic
NoNewFailure == ~(\E k \in 1..Len(NewCalls) : NewCalls[k].res = "error")

\* C9: with a valid token and no failing cluster call, an absent namespace or
\* secret is created exactly once, right after its own lookup said not-found,
\* the namespace before the secret; the secret is created as docker-config-json
\* with the decoded token; no Update is issued for an absent secret; the
\* function returns success.
C9_CreatesWhatIsAbsent ==
    [][ ( /\ pc = "fixedup"
          /\ ~BadToken(env)
          /\ ~nsExists \/ secret = NoSecret
          /\ NoNewFailure
          /\ returned'.secret \notin {"none", "panic"} )
        => ( /\ returned'.secret = "nil"
             /\ result' = "nil"
             /\ pc' = "done"
             /\ Cardinality(Positions(NewCalls, "Namespaces.Create")) = IF nsExists THEN 0 ELSE 1
             /\ Cardinality(Positions(NewCalls, "Secrets.Create")) = IF secret = NoSecret THEN 1 ELSE 0
             /\ \A k \in Positions(NewCalls, "Namespaces.Create") :
                   /\ k > 1
                   /\ NewCalls[k - 1] = Call("Namespaces.Get", "notfound")
                   /\ \A j \in Positions(NewCalls, "Secrets.Create") : k < j
             /\ \A k \in Positions(NewCalls, "Secrets.Create") :
                   /\ k > 1
                   /\ NewCalls[k - 1] = Call("Secrets.Get", "notfound")
             /\ nsExists'
             /\ secret = NoSecret =>
                   /\ secret' = [type |-> SecretTypeDockerConfigJson,
                                 data |-> DecodeString(QuayTokenOf(env))]
                   /\ "Secrets.Update" \notin Ops(NewCalls) ) ]_vars

\* C9 witness: namespace and secret were both absent, both were created, and
\* the installation returned success with the decoded scenario token stored.
C9_Witness ==
    /\ Has(calls, "Namespaces.Get", "notfound")
    /\ Has(calls, "Namespaces.Create", "ok")
    /\ Has(calls, "Secrets.Get", "notfound")
    /\ Has(calls, "Secrets.Create", "ok")
    /\ result = "nil"
    /\ secret.data = <<123, 34, 97, 34, 58, 49, 125>>

\* C10: a cluster call of createE2EQuaySecret that fails, other than a lookup
\* answering not-found, is the last call the function makes, and the function
\* then returns an error.
C10_ClusterErrorsFatal ==
    \A k \in 1..Len(calls) :
        (calls[k].op \in SecretOps /\ calls[k].res = "error")
            => /\ k = Len(calls)
               /\ returned.secret \notin {"none", "nil"} => result = returned.secret
               /\ returned.secret # "nil"

====
